---- MODULE Spec2Model ----
(***************************************************************************)
(* Model of the Jiffy / Toggl / Clockify converters                        *)
(*   src/jiffy_export.py, src/toggl_export.py, src/convert_jiffy_toggl.py  *)
(*                                                                         *)
(* Text that the code parses or formats (zone descriptors, dates, times,   *)
(* durations) is a sequence of one-character strings, so that parsing and  *)
(* formatting are computed and not assumed.  Text that the code only       *)
(* copies or tests for truthiness (status, note, names, email) is a plain  *)
(* string.  A dict key that is absent is a record field that is absent.    *)
(***************************************************************************)
EXTENDS Integers, Sequences, FiniteSets, TLC

VARIABLES script, input_exists, time_entries, time_owners, entries, args,
          active_entries, out_file, ran, again, ret, exit_status

vars == <<script, input_exists, time_entries, time_owners, entries, args,
          active_entries, out_file, ran, again, ret, exit_status>>

-----------------------------------------------------------------------------
(* Bounds of the model *)

MaxEntries == 2

MaxOwners == 2

-----------------------------------------------------------------------------
(* Python values *)

\* Python's None where a plain string is expected (JSON null, dict.get miss).
None == "<None>"

\* Python's None where a parsed text (a character sequence) is expected.
NoneText == <<None>>

\* Truthiness of an optional text, as in `if from_date or to_date`.
Truthy(s) == s # NoneText /\ s # <<>>

\* Truthiness of an optional plain string, as in `description or ''`.
TruthyStr(s) == s # None /\ s # ""

\* dict.get(key, default) on a record whose absent keys are absent fields.
Get(d, key, default) == IF key \in DOMAIN d THEN d[key] ELSE default

\* The record e without the fields of the set keys.
Without(e, keys) == [k \in DOMAIN e \ keys |-> e[k]]

\* The result of a call that may raise.
Ok(v) == [exc |-> "none", val |-> v]

Raise(e) == [exc |-> e, val |-> 0]

-----------------------------------------------------------------------------
(* Text: int(), str.split(':'), str.startswith, decimal formatting *)

Digits == <<"0", "1", "2", "3", "4", "5", "6", "7", "8", "9">>

IsDigit(c) == \E i \in 1..10 : Digits[i] = c

DigitVal(c) == (CHOOSE i \in 1..10 : Digits[i] = c) - 1

AllDigits(s) == Len(s) > 0 /\ \A i \in 1..Len(s) : IsDigit(s[i])

RECURSIVE DigitsVal(_)
DigitsVal(s) ==
    IF Len(s) = 0 THEN 0
    ELSE 10 * DigitsVal(SubSeq(s, 1, Len(s) - 1)) + DigitVal(s[Len(s)])

\* int(s) for a decimal literal with an optional sign; ValueError otherwise.
IntOfDigits(sign, digits) ==
    IF AllDigits(digits) THEN Ok(sign * DigitsVal(digits))
    ELSE Raise("ValueError")

ParseInt(s) ==
    IF Len(s) > 0 /\ s[1] \in {"+", "-"}
    THEN IntOfDigits(IF s[1] = "-" THEN -1 ELSE 1, Tail(s))
    ELSE IntOfDigits(1, s)

\* s.split(sep): the pieces of s between occurrences of the character sep.
RECURSIVE Split(_, _)
SplitAt(s, sep, i) ==
    <<SubSeq(s, 1, i - 1)>> \o Split(SubSeq(s, i + 1, Len(s)), sep)

Split(s, sep) ==
    IF \E i \in 1..Len(s) : s[i] = sep
    THEN SplitAt(s, sep, CHOOSE k \in 1..Len(s) :
                             s[k] = sep /\ \A j \in 1..(k - 1) : s[j] # sep)
    ELSE <<s>>

StartsWith(s, p) == Len(s) >= Len(p) /\ SubSeq(s, 1, Len(p)) = p

\* str(n) / f"{n}" for an integer.
RECURSIVE NatStr(_)
NatStr(n) ==
    IF n < 10 THEN <<Digits[n + 1]>>
    ELSE NatStr(n \div 10) \o <<Digits[(n % 10) + 1]>>

IntStr(n) == IF n < 0 THEN <<"-">> \o NatStr(-n) ELSE NatStr(n)

\* f"{n:02d}": at least two characters, zero filled after the sign.
Pad2(n) ==
    IF n < 0 THEN <<"-">> \o NatStr(-n)
    ELSE IF n < 10 THEN <<"0">> \o NatStr(n) ELSE NatStr(n)

\* Zero fill on the left to width w, as strftime does for %Y.
RECURSIVE ZeroFill(_, _)
ZeroFill(s, w) == IF Len(s) >= w THEN s ELSE ZeroFill(<<"0">> \o s, w)

-----------------------------------------------------------------------------
(* Calendar: datetime, date, strftime, strptime *)

\* A zone-naive datetime is the count of milliseconds of its wall clock since
\* 1970-01-01 00:00:00; a date is <<year, month, day>>; a time is <<h, m, s>>.
MsPerSecond == 10 * 10 * 10

MsPerMinute == 60 * MsPerSecond

MsPerHour == 60 * MsPerMinute

MsPerDay == 24 * MsPerHour

\* datetime.fromtimestamp(timestamp_ms / 1000, tz=timezone.utc)
FromTimestampUtc(timestamp_ms) == timestamp_ms

\* The proleptic Gregorian date of day number z (0 is 1970-01-01), computed
\* in steps: the 400-year era and the day of the era, the year of the era,
\* the day of the year, the month counted from March, then year, month, day.
CivilYmd(y, m, d) == <<y + (IF m <= 2 THEN 1 ELSE 0), m, d>>

CivilFromMp(y, doy, mp) ==
    CivilYmd(y, IF mp < 10 THEN mp + 3 ELSE mp - 9,
             doy - (153 * mp + 2) \div 5 + 1)

CivilFromDoy(y, doy) == CivilFromMp(y, doy, (5 * doy + 2) \div 153)

CivilFromYoe(era, doe, yoe) ==
    CivilFromDoy(yoe + era * 400,
                 doe - (365 * yoe + yoe \div 4 - yoe \div 100))

CivilFromDoe(era, doe) ==
    CivilFromYoe(era, doe,
                 (doe - doe \div 1460 + doe \div 36524 - doe \div 146096)
                     \div 365)

CivilFromDays(z) ==
    CivilFromDoe((z + 719468) \div 146097, (z + 719468) % 146097)

\* datetime.date()
DateOf(dt) == CivilFromDays(dt \div MsPerDay)

\* The hour, minute and second of a datetime.
TimeOfSeconds(secs) == <<secs \div 3600, (secs % 3600) \div 60, secs % 60>>

TimeOf(dt) == TimeOfSeconds((dt % MsPerDay) \div MsPerSecond)

\* date < date, as Python compares dates.
DateLess(a, b) ==
    \/ a[1] < b[1]
    \/ a[1] = b[1] /\ a[2] < b[2]
    \/ a[1] = b[1] /\ a[2] = b[2] /\ a[3] < b[3]

IsLeap(y) == (y % 4 = 0 /\ y % 100 # 0) \/ y % 400 = 0

DaysInMonth(y, m) ==
    IF m = 2 THEN (IF IsLeap(y) THEN 29 ELSE 28)
    ELSE IF m \in {4, 6, 9, 11} THEN 30 ELSE 31

\* strftime('%Y-%m-%d')
StrfYmd(date) ==
    ZeroFill(NatStr(date[1]), 4) \o <<"-">> \o Pad2(date[2]) \o <<"-">>
        \o Pad2(date[3])

\* strftime('%m/%d/%Y')
StrfMdy(date) ==
    Pad2(date[2]) \o <<"/">> \o Pad2(date[3]) \o <<"/">>
        \o ZeroFill(NatStr(date[1]), 4)

\* strftime('%H:%M:%S')
StrfHms(time) ==
    Pad2(time[1]) \o <<":">> \o Pad2(time[2]) \o <<":">> \o Pad2(time[3])

\* strftime('%-I:%M %p')
StrfIMp(time) ==
    NatStr(IF time[1] % 12 = 0 THEN 12 ELSE time[1] % 12)
        \o <<":">> \o Pad2(time[2]) \o <<" ">>
        \o (IF time[1] < 12 THEN <<"A", "M">> ELSE <<"P", "M">>)

\* datetime.strptime(s, '%Y-%m-%d').date(): the date, or ValueError.
YmdChecked(y, m, d) ==
    IF y >= 1 /\ m \in 1..12 /\ d \in 1..DaysInMonth(y, m)
    THEN Ok(<<y, m, d>>)
    ELSE Raise("ValueError")

YmdOfParts(p) ==
    IF /\ Len(p) = 3
       /\ \A i \in 1..3 : AllDigits(p[i])
       /\ Len(p[1]) = 4
       /\ Len(p[2]) \in 1..2
       /\ Len(p[3]) \in 1..2
    THEN YmdChecked(DigitsVal(p[1]), DigitsVal(p[2]), DigitsVal(p[3]))
    ELSE Raise("ValueError")

StrpYmd(s) == YmdOfParts(Split(s, "-"))

\* datetime.strptime(s, '%H:%M:%S'): the time of day, or ValueError.
HmsChecked(h, mi, sc) ==
    IF h \in 0..23 /\ mi \in 0..59 /\ sc \in 0..61
    THEN Ok(<<h, mi, sc>>)
    ELSE Raise("ValueError")

HmsOfParts(p) ==
    IF /\ Len(p) = 3
       /\ \A i \in 1..3 : AllDigits(p[i]) /\ Len(p[i]) \in 1..2
    THEN HmsChecked(DigitsVal(p[1]), DigitsVal(p[2]), DigitsVal(p[3]))
    ELSE Raise("ValueError")

StrpHms(s) == HmsOfParts(Split(s, ":"))

-----------------------------------------------------------------------------
(* Zone descriptors *)

AsiaBangkok == <<"A", "s", "i", "a", "/", "B", "a", "n", "g", "k", "o", "k">>

EtcUTC == <<"E", "t", "c", "/", "U", "T", "C">>

MarsPhobos == <<"M", "a", "r", "s", "/", "P", "h", "o", "b", "o", "s">>

GMT == <<"G", "M", "T">>

GmtMinus0500 == GMT \o <<"-", "0", "5", ":", "0", "0">>

GmtMinus0530 == GMT \o <<"-", "0", "5", ":", "3", "0">>

GmtPlus0545 == GMT \o <<"+", "0", "5", ":", "4", "5">>

\* Descriptors that begin with GMT and are not of the form GMT+HH:MM.
Gmt0 == GMT \o <<"0">>

GmtPlusAb == GMT \o <<"+", "a", "b">>

GmtPlus07 == GMT \o <<"+", "0", "7">>

\* ZoneInfo(tz_name): the zones of the host's database that the model knows,
\* each with its offset from UTC in minutes; any other name is not found.
ZoneInfoKeys == {AsiaBangkok, EtcUTC, GMT}

ZoneInfoOffsetMinutes(tz_name) ==
    IF tz_name = AsiaBangkok THEN 7 * 60 ELSE 0

\* dt_utc.astimezone(ZoneInfo(tz_name)).replace(tzinfo=None), or the error of
\* ZoneInfo for a key that the database does not have.
AsTimezone(dt_utc, tz_name) ==
    IF tz_name \in ZoneInfoKeys
    THEN Ok(dt_utc + ZoneInfoOffsetMinutes(tz_name) * MsPerMinute)
    ELSE Raise("ZoneInfoNotFoundError")

\* try: ... astimezone(ZoneInfo(tz_name)) ... except Exception: the UTC
\* reading.
ZoneOrUtc(zi, dt_utc) == IF zi.exc = "none" THEN zi ELSE Ok(dt_utc)

\* An offset whose sign applies to the hours only.
GmtShift_SignOnHours(dt_utc, sign, hours, minutes) ==
    IF hours.exc # "none" THEN Raise(hours.exc)
    ELSE IF minutes.exc # "none" THEN Raise(minutes.exc)
    ELSE Ok(dt_utc + sign * hours.val * MsPerHour
                   + minutes.val * MsPerMinute)

\* dt_utc + timedelta(hours=sign * hours, minutes=sign * minutes), once the
\* two int() calls have returned.
GmtShift(dt_utc, sign, hours, minutes) ==
    IF hours.exc # "none" THEN Raise(hours.exc)
    ELSE IF minutes.exc # "none" THEN Raise(minutes.exc)
    ELSE Ok(dt_utc + sign * hours.val * MsPerHour
                   + sign * minutes.val * MsPerMinute)

\* The GMT offset branch: the sign, then the parts around ':'.
GmtOffset(dt_utc, sign_char, parts) ==
    GmtShift(dt_utc, IF sign_char = "+" THEN 1 ELSE -1, ParseInt(parts[1]),
             IF Len(parts) > 1 THEN ParseInt(parts[2]) ELSE Ok(0))

\* The shared body of parse_jiffy_timestamp and convert_to_output_timezone:
\* the GMT offset branch, then ZoneInfo, then the UTC fallback.
ToZone(dt_utc, tz_name) ==
    IF StartsWith(tz_name, GMT) /\ Len(tz_name) > 3
    THEN GmtOffset(dt_utc, tz_name[4],
                   Split(SubSeq(tz_name, 5, Len(tz_name)), ":"))
    ELSE ZoneOrUtc(AsTimezone(dt_utc, tz_name), dt_utc)

\* parse_jiffy_timestamp(timestamp_ms, tz_name)
parse_jiffy_timestamp(timestamp_ms, tz_name) ==
    ToZone(FromTimestampUtc(timestamp_ms), tz_name)

\* A conversion that renders in the entry's recorded zone.
convert_to_output_timezone_InputZone(timestamp_ms, input_tz_name, output_tz_name) ==
    ToZone(FromTimestampUtc(timestamp_ms), input_tz_name)

\* convert_to_output_timezone(timestamp_ms, input_tz_name, output_tz_name)
convert_to_output_timezone(timestamp_ms, input_tz_name, output_tz_name) ==
    ToZone(FromTimestampUtc(timestamp_ms), output_tz_name)

-----------------------------------------------------------------------------
(* jiffy_export: durations and owners *)

\* A duration whose hours wrap at a day.
format_duration_Wrap24(start_ms, stop_ms) ==
    LET ms      == stop_ms - start_ms
        hours   == (ms \div MsPerHour) % 24
        minutes == (ms % MsPerHour) \div MsPerMinute
        seconds == (ms % MsPerMinute) \div MsPerSecond
    IN  IntStr(hours) \o <<":">> \o Pad2(minutes) \o <<":">> \o Pad2(seconds)

\* format_duration(start_ms, stop_ms).  The code divides the millisecond
\* difference by 1000 into a float and floors its quotients; on a millisecond
\* count these are the floored quotients below (Python's // and % floor, as
\* \div and % do here).
format_duration(start_ms, stop_ms) ==
    LET ms      == stop_ms - start_ms
        hours   == ms \div MsPerHour
        minutes == (ms % MsPerHour) \div MsPerMinute
        seconds == (ms % MsPerMinute) \div MsPerSecond
    IN  IntStr(hours) \o <<":">> \o Pad2(minutes) \o <<":">> \o Pad2(seconds)

\* format_duration_hours(start_ms, stop_ms): f"{hours:.2f}", the hours rounded
\* to the nearest hundredth (an exact half rounds to the even hundredth).
format_duration_hours(start_ms, stop_ms) ==
    LET ms  == stop_ms - start_ms
        a   == IF ms < 0 THEN -ms ELSE ms
        q   == a \div 36000
        r   == a % 36000
        h   == IF 2 * r > 36000 \/ (2 * r = 36000 /\ q % 2 = 1)
               THEN q + 1 ELSE q
    IN  (IF ms < 0 /\ h > 0 THEN <<"-">> ELSE <<>>)
            \o NatStr(h \div 100) \o <<".">> \o Pad2(h % 100)

\* The first owner of time_owners with this id, as the loops find it.
HasOwner(owner_id, owners) == \E i \in 1..Len(owners) : owners[i].id = owner_id

FirstOwner(owner_id, owners) ==
    owners[CHOOSE i \in 1..Len(owners) :
               /\ owners[i].id = owner_id
               /\ \A j \in 1..(i - 1) : owners[j].id # owner_id]

\* get_owner_name(owner_id, time_owners)
get_owner_name(owner_id, owners) ==
    IF HasOwner(owner_id, owners)
    THEN Get(FirstOwner(owner_id, owners), "name", "Unknown")
    ELSE "Unknown"

\* The name of the owner with id parent_id, '' when parent_id is empty or
\* matches no owner: the inner loop of get_parent_owner_name.
ParentName(parent_id, owners) ==
    IF TruthyStr(parent_id) /\ HasOwner(parent_id, owners)
    THEN Get(FirstOwner(parent_id, owners), "name", "")
    ELSE ""

\* A client lookup that climbs to the parent's parent when there is one.
GrandparentName(parent_id, owners) ==
    IF TruthyStr(parent_id) /\ HasOwner(parent_id, owners)
       /\ HasOwner(Get(FirstOwner(parent_id, owners), "parent_id", None),
                   owners)
    THEN ParentName(Get(FirstOwner(parent_id, owners), "parent_id", None),
                    owners)
    ELSE ParentName(parent_id, owners)

get_parent_owner_name_TwoLevels(owner_id, owners) ==
    IF HasOwner(owner_id, owners)
    THEN GrandparentName(Get(FirstOwner(owner_id, owners), "parent_id", None),
                         owners)
    ELSE ""

\* get_parent_owner_name(owner_id, time_owners)
get_parent_owner_name(owner_id, owners) ==
    IF HasOwner(owner_id, owners)
    THEN ParentName(Get(FirstOwner(owner_id, owners), "parent_id", None),
                    owners)
    ELSE ""

-----------------------------------------------------------------------------
(* The steps the converters share *)

\* No date: the value of start_date / end_date for an absent bound.
NoneDate == <<>>

\* A status test that rejects only DELETED.
IsActive_NotDeleted(e) == Get(e, "status", None) # "DELETED"

\* [e for e in time_entries if e.get('status') == 'ACTIVE']
IsActive(e) == Get(e, "status", None) = "ACTIVE"

\* A status filter that also drops an entry equal, in every field of the
\* export, to an entry before it.
FilterActive_Dedup(es) ==
    SelectSeq(es, LAMBDA e :
        /\ IsActive(e)
        /\ ~\E j \in 1..Len(es) :
               /\ es[j].id < e.id
               /\ Without(es[j], {"id"}) = Without(e, {"id"}))

FilterActive(es) == SelectSeq(es, IsActive)

\* A date test that excludes the upper bound itself.
InDateRange_ExclusiveEnd(entry_date, start_date, end_date) ==
    /\ ~(start_date # NoneDate /\ DateLess(entry_date, start_date))
    /\ ~(end_date # NoneDate /\ ~DateLess(entry_date, end_date))

\* The two `continue` tests of the date loop: TRUE when the entry is kept.
InDateRange(entry_date, start_date, end_date) ==
    /\ ~(start_date # NoneDate /\ DateLess(entry_date, start_date))
    /\ ~(end_date # NoneDate /\ DateLess(end_date, entry_date))

\* Bounds where a to_date that does not parse counts as no bound.
BoundsOf_LenientTo(sd, ed) ==
    IF sd.exc # "none" THEN Raise(sd.exc)
    ELSE Ok(<<sd.val, IF ed.exc = "none" THEN ed.val ELSE NoneDate>>)

\* The two strptime calls on the bounds, from_date first.
BoundsOf(sd, ed) ==
    IF sd.exc # "none" THEN Raise(sd.exc)
    ELSE IF ed.exc # "none" THEN Raise(ed.exc)
    ELSE Ok(<<sd.val, ed.val>>)

ParseBounds(from_date, to_date) ==
    BoundsOf(IF Truthy(from_date) THEN StrpYmd(from_date) ELSE Ok(NoneDate),
             IF Truthy(to_date) THEN StrpYmd(to_date) ELSE Ok(NoneDate))

\* The first exception among a sequence of results, or "none".
FirstExc(rs) ==
    IF \E i \in 1..Len(rs) : rs[i].exc # "none"
    THEN rs[CHOOSE i \in 1..Len(rs) :
                /\ rs[i].exc # "none"
                /\ \A j \in 1..(i - 1) : rs[j].exc = "none"].exc
    ELSE "none"

\* The results before the first exception.
RECURSIVE OkPrefix(_)
OkPrefix(rs) ==
    IF Len(rs) = 0 \/ rs[1].exc # "none" THEN <<>>
    ELSE <<rs[1].val>> \o OkPrefix(Tail(rs))

\* An insertion that places an entry before the entries of equal key.
RECURSIVE InsertByStart_Unstable(_, _)
InsertByStart_Unstable(sorted, e) ==
    IF Len(sorted) = 0 THEN <<e>>
    ELSE IF sorted[Len(sorted)].start_time < e.start_time
         THEN Append(sorted, e)
         ELSE Append(InsertByStart_Unstable(
                         SubSeq(sorted, 1, Len(sorted) - 1), e),
                     sorted[Len(sorted)])

\* list.sort(key=lambda e: e['start_time']): a stable sort, each entry placed
\* after the entries already placed whose key is not greater.
RECURSIVE InsertByStart(_, _)
InsertByStart(sorted, e) ==
    IF Len(sorted) = 0 THEN <<e>>
    ELSE IF sorted[Len(sorted)].start_time <= e.start_time
         THEN Append(sorted, e)
         ELSE Append(InsertByStart(SubSeq(sorted, 1, Len(sorted) - 1), e),
                     sorted[Len(sorted)])

RECURSIVE SortByStart(_)
SortByStart(es) ==
    IF Len(es) = 0 THEN <<>>
    ELSE InsertByStart(SortByStart(SubSeq(es, 1, Len(es) - 1)), es[Len(es)])

\* entry_dt.date(), once the timestamp has been parsed.
DateOfResult(entry_dt) ==
    IF entry_dt.exc # "none" THEN Raise(entry_dt.exc)
    ELSE Ok(DateOf(entry_dt.val))

\* The date of an entry that the jiffy date loop compares with the bounds.
JiffyEntryDate(entry) ==
    IF "start_time_zone" \notin DOMAIN entry THEN Raise("KeyError")
    ELSE DateOfResult(parse_jiffy_timestamp(entry.start_time,
                                            entry.start_time_zone))

\* One turn of a date loop: the entry's date has been computed and the rest
\* of the list filtered; the entry is appended to filtered_entries unless one
\* of the two tests skips it.
DateLoopStep(entry, entry_date, rest, start_date, end_date) ==
    IF entry_date.exc # "none" THEN Raise(entry_date.exc)
    ELSE IF rest.exc # "none" THEN Raise(rest.exc)
    ELSE IF InDateRange(entry_date.val, start_date, end_date)
         THEN Ok(<<entry>> \o rest.val)
         ELSE rest

\* for entry in active_entries: ... filtered_entries.append(entry)
RECURSIVE JiffyDateLoop(_, _, _)
JiffyDateLoop(es, start_date, end_date) ==
    IF Len(es) = 0 THEN Ok(<<>>)
    ELSE DateLoopStep(es[1], JiffyEntryDate(es[1]),
                      JiffyDateLoop(Tail(es), start_date, end_date),
                      start_date, end_date)

\* The list once the date loop is over, sorted by start time.
SortedResult(filtered) ==
    IF filtered.exc # "none" THEN Raise(filtered.exc)
    ELSE Ok(SortByStart(filtered.val))

\* The date filter of jiffy_export once the bounds have been parsed.
JiffyFilterByDate(active, bounds) ==
    IF bounds.exc # "none" THEN Raise(bounds.exc)
    ELSE SortedResult(JiffyDateLoop(active, bounds.val[1], bounds.val[2]))

\* jiffy_export: everything before the file is opened.  The active entries,
\* filtered by the date range when a bound is given, then sorted.
JiffySelect(es, from_date, to_date) ==
    IF ~(Truthy(from_date) \/ Truthy(to_date))
    THEN Ok(SortByStart(FilterActive(es)))
    ELSE JiffyFilterByDate(FilterActive(es), ParseBounds(from_date, to_date))

\* A file that does not exist.
NoFile == [exists |-> FALSE, header |-> <<>>, rows |-> <<>>]

\* An open that keeps what the file holds and writes after it.
OpenW_Append(old_file) ==
    [exists |-> TRUE, header |-> old_file.header, rows |-> old_file.rows]

\* open(output_file, 'w'): the file is created, or truncated when it exists.
OpenW(old_file) == [exists |-> TRUE, header |-> <<>>, rows |-> <<>>]

\* writeheader() ... writerow(row) for each entry, on the file just opened:
\* the header is written, then the rows up to the first one whose
\* computation raises.
WriteCsv(opened, fieldnames, row_results) ==
    [exists |-> TRUE, header |-> fieldnames,
     rows |-> opened.rows \o OkPrefix(row_results)]

\* What a converter leaves behind: the exception it raised ("none" when it
\* returned), its list of retained entries and the output file.
Outcome(exc, retained, file) ==
    [exc |-> exc, active_entries |-> retained, out_file |-> file]

\* The `with open(...)` block of a converter: the file written from the
\* rows computed for the retained entries.
Written(old_file, retained, fieldnames, row_results) ==
    Outcome(FirstExc(row_results), retained,
            WriteCsv(OpenW(old_file), fieldnames, row_results))

\* description or ''
OrEmpty(description) == IF TruthyStr(description) THEN description ELSE ""

-----------------------------------------------------------------------------
(* jiffy_export.convert_to_toggl *)

TogglFieldnames ==
    <<"Description", "Billable", "Duration", "Email", "Project",
      "Start date", "Start time">>

\* The row dict of convert_to_toggl, once start_dt and stop_dt are computed.
JiffyTogglRowDict(entry, start_dt, stop_dt, owners, email) ==
    IF start_dt.exc # "none" THEN Raise(start_dt.exc)
    ELSE IF stop_dt.exc # "none" THEN Raise(stop_dt.exc)
    ELSE Ok([Description |-> OrEmpty(Get(entry, "note", "-")),
             Billable    |-> "No",
             Duration    |-> format_duration(entry.start_time,
                                             entry.stop_time),
             Email       |-> email,
             Project     |-> get_owner_name(entry.owner_id, owners),
             Start_date  |-> StrfYmd(DateOf(start_dt.val)),
             Start_time  |-> StrfHms(TimeOf(start_dt.val))])

\* The body of the row loop of convert_to_toggl.
JiffyTogglRow(entry, owners, email, output_timezone) ==
    IF ~({"start_time_zone", "stop_time_zone"} \subseteq DOMAIN entry)
    THEN Raise("KeyError")
    ELSE
    JiffyTogglRowDict(entry,
                      convert_to_output_timezone(entry.start_time,
                          entry.start_time_zone, output_timezone),
                      convert_to_output_timezone(entry.stop_time,
                          entry.stop_time_zone, output_timezone),
                      owners, email)

\* convert_to_toggl from the opening of the file on.
WriteToggl(sel, owners, old_file, email, output_timezone) ==
    IF sel.exc # "none" THEN Outcome(sel.exc, <<>>, old_file)
    ELSE Written(old_file, sel.val, TogglFieldnames,
                 [i \in 1..Len(sel.val) |->
                     JiffyTogglRow(sel.val[i], owners, email,
                                   output_timezone)])

convert_to_toggl(es, owners, old_file, email, from_date, to_date, output_timezone) ==
    WriteToggl(JiffySelect(es, from_date, to_date), owners, old_file, email,
               output_timezone)

-----------------------------------------------------------------------------
(* jiffy_export.convert_to_clockify *)

ClockifyFieldnames ==
    <<"Project", "Client", "Description", "Task", "Email", "Tags",
      "Billable", "Start Date", "Start Time", "Duration (h)">>

\* The row dict of jiffy_export.convert_to_clockify, once start_dt and
\* stop_dt are computed.
JiffyClockifyRowDict(entry, start_dt, stop_dt, owners, email) ==
    IF start_dt.exc # "none" THEN Raise(start_dt.exc)
    ELSE IF stop_dt.exc # "none" THEN Raise(stop_dt.exc)
    ELSE Ok([Project     |-> get_owner_name(entry.owner_id, owners),
             Client      |-> get_parent_owner_name(entry.owner_id, owners),
             Description |-> OrEmpty(Get(entry, "note", "")),
             Task        |-> "",
             Email       |-> email,
             Tags        |-> "",
             Billable    |-> "No",
             Start_Date  |-> StrfMdy(DateOf(start_dt.val)),
             Start_Time  |-> StrfIMp(TimeOf(start_dt.val)),
             Duration_h  |-> format_duration(entry.start_time,
                                             entry.stop_time)])

\* The body of the row loop of jiffy_export.convert_to_clockify.
JiffyClockifyRow(entry, owners, email, output_timezone) ==
    IF ~({"start_time_zone", "stop_time_zone"} \subseteq DOMAIN entry)
    THEN Raise("KeyError")
    ELSE
    JiffyClockifyRowDict(entry,
                         convert_to_output_timezone(entry.start_time,
                             entry.start_time_zone, output_timezone),
                         convert_to_output_timezone(entry.stop_time,
                             entry.stop_time_zone, output_timezone),
                         owners, email)

\* jiffy_export.convert_to_clockify from the opening of the file on.
WriteClockify(sel, owners, old_file, email, output_timezone) ==
    IF sel.exc # "none" THEN Outcome(sel.exc, <<>>, old_file)
    ELSE Written(old_file, sel.val, ClockifyFieldnames,
                 [i \in 1..Len(sel.val) |->
                     JiffyClockifyRow(sel.val[i], owners, email,
                                      output_timezone)])

convert_to_clockify(es, owners, old_file, email, from_date, to_date, output_timezone) ==
    WriteClockify(JiffySelect(es, from_date, to_date), owners, old_file,
                  email, output_timezone)

-----------------------------------------------------------------------------
(* toggl_export *)

\* int(parts[i]), IndexError when the duration has no such part.
IntOfPart(parts, i) ==
    IF Len(parts) < i THEN Raise("IndexError") ELSE ParseInt(parts[i])

\* hours * 3600 + minutes * 60 + seconds, once the three int() calls are
\* made, the first that raises ending the call.
SecondsOf(hours, minutes, seconds) ==
    IF hours.exc # "none" THEN Raise(hours.exc)
    ELSE IF minutes.exc # "none" THEN Raise(minutes.exc)
    ELSE IF seconds.exc # "none" THEN Raise(seconds.exc)
    ELSE Ok(hours.val * 3600 + minutes.val * 60 + seconds.val)

DurationOfParts(parts) ==
    SecondsOf(IntOfPart(parts, 1), IntOfPart(parts, 2), IntOfPart(parts, 3))

\* parse_toggl_duration(duration_str)
parse_toggl_duration(duration_str) ==
    DurationOfParts(Split(duration_str, ":"))

\* format_duration_hms(seconds)
format_duration_hms(seconds) ==
    LET hours   == seconds \div 3600
        minutes == (seconds % 3600) \div 60
        secs    == seconds % 60
    IN  IntStr(hours) \o <<":">> \o Pad2(minutes) \o <<":">> \o Pad2(secs)

\* The date of a CSV row that the toggl date loop compares with the bounds.
TogglEntryDate(entry) ==
    IF "Start_date" \notin DOMAIN entry THEN Raise("KeyError")
    ELSE StrpYmd(entry.Start_date)

\* for entry in entries: ... filtered_entries.append(entry)
RECURSIVE TogglDateLoop(_, _, _)
TogglDateLoop(es, start_date, end_date) ==
    IF Len(es) = 0 THEN Ok(<<>>)
    ELSE DateLoopStep(es[1], TogglEntryDate(es[1]),
                      TogglDateLoop(Tail(es), start_date, end_date),
                      start_date, end_date)

\* The date filter of toggl_export once the bounds have been parsed.
TogglFilterByDate(es, bounds) ==
    IF bounds.exc # "none" THEN Raise(bounds.exc)
    ELSE TogglDateLoop(es, bounds.val[1], bounds.val[2])

\* toggl_export.convert_to_clockify: the date filter before the file is
\* opened.  The rows are kept in the order of the input.
TogglSelect(es, from_date, to_date) ==
    IF ~(Truthy(from_date) \/ Truthy(to_date)) THEN Ok(es)
    ELSE TogglFilterByDate(es, ParseBounds(from_date, to_date))

\* project_to_client.get(project_name, '') on a mapping that may be empty.
ClientOf(project_to_client, project_name) ==
    IF project_to_client # <<>> /\ project_name # ""
       /\ project_name \in DOMAIN project_to_client
    THEN project_to_client[project_name]
    ELSE ""

\* The row dict of toggl_export.convert_to_clockify, once the duration, the
\* start date and the start time are parsed.
TogglRowDict(entry, duration_seconds, start_date, start_time, project_name, project_to_client) ==
    IF duration_seconds.exc # "none" THEN Raise(duration_seconds.exc)
    ELSE IF start_date.exc # "none" THEN Raise(start_date.exc)
    ELSE IF start_time.exc # "none" THEN Raise(start_time.exc)
    ELSE Ok([Project     |-> project_name,
             Client      |-> ClientOf(project_to_client, project_name),
             Description |-> Get(entry, "Description", ""),
             Task        |-> "",
             Email       |-> Get(entry, "Email", ""),
             Tags        |-> "",
             Billable    |-> Get(entry, "Billable", "No"),
             Start_Date  |-> StrfMdy(start_date.val),
             Start_Time  |-> StrfIMp(start_time.val),
             Duration_h  |-> format_duration_hms(duration_seconds.val)])

\* The body of the row loop of toggl_export.convert_to_clockify.
TogglClockifyRow(entry, project_to_client) ==
    TogglRowDict(entry, parse_toggl_duration(entry.Duration),
                 TogglEntryDate(entry), StrpHms(entry.Start_time),
                 Get(entry, "Project", ""), project_to_client)

\* toggl_export.convert_to_clockify from the opening of the file on.
TogglWrite(sel, old_file, project_to_client) ==
    IF sel.exc # "none" THEN Outcome(sel.exc, <<>>, old_file)
    ELSE Written(old_file, sel.val, ClockifyFieldnames,
                 [i \in 1..Len(sel.val) |->
                     TogglClockifyRow(sel.val[i], project_to_client)])

toggl_convert_to_clockify(es, old_file, from_date, to_date, project_to_client) ==
    TogglWrite(TogglSelect(es, from_date, to_date), old_file,
               project_to_client)

-----------------------------------------------------------------------------
(* print-only mode *)

\* es[-n:] for n >= 0 (es[-0:] is the whole list).
LastN(es, n) ==
    IF n = 0 \/ n >= Len(es) THEN es
    ELSE SubSeq(es, Len(es) - n + 1, Len(es))

\* for owner in time_owners[:10]: owner['name'] ... owner['id'] ...
\* owner['status']
OwnerListing(owners) ==
    IF \A i \in 1..Len(owners) :
           i <= 10 => {"name", "id", "status"} \subseteq DOMAIN owners[i]
    THEN "none"
    ELSE "KeyError"

\* except ValueError: the last num_examples entries are shown instead.
ShownOrLast(filtered, all, n) ==
    IF filtered.exc = "ValueError" THEN Ok(LastN(all, n)) ELSE filtered

\* The body of the try block of jiffy_export.print_examples.
JiffyPrintFilter(active, bounds) ==
    IF bounds.exc # "none" THEN Raise(bounds.exc)
    ELSE JiffyDateLoop(active, bounds.val[1], bounds.val[2])

\* The entries that jiffy_export.print_examples goes on to print.
JiffyShown(es, n, from_date, to_date) ==
    IF ~(Truthy(from_date) \/ Truthy(to_date))
    THEN Ok(LastN(FilterActive(es), n))
    ELSE ShownOrLast(JiffyPrintFilter(FilterActive(es),
                                      ParseBounds(from_date, to_date)),
                     FilterActive(es), n)

\* start_dt and stop_dt of a printed entry: the first of the two calls that
\* raises ends the run.
BothParsed(entry, start_dt, stop_dt) ==
    IF start_dt.exc # "none" THEN Raise(start_dt.exc)
    ELSE IF stop_dt.exc # "none" THEN Raise(stop_dt.exc)
    ELSE Ok(entry)

\* The body of the print loop of jiffy_export.print_examples.
JiffyPrintEntry(entry) ==
    IF ~({"start_time_zone", "stop_time_zone"} \subseteq DOMAIN entry)
    THEN Raise("KeyError")
    ELSE BothParsed(entry,
                    parse_jiffy_timestamp(entry.start_time,
                                          entry.start_time_zone),
                    parse_jiffy_timestamp(entry.stop_time,
                                          entry.stop_time_zone))

\* min(time_entries, key=start_time) and max(...): the first entry of the
\* least, or of the greatest, start_time.
Oldest(es) ==
    es[CHOOSE i \in 1..Len(es) :
           /\ \A j \in 1..Len(es) : es[i].start_time <= es[j].start_time
           /\ \A j \in 1..(i - 1) : es[j].start_time # es[i].start_time]

Newest(es) ==
    es[CHOOSE i \in 1..Len(es) :
           /\ \A j \in 1..Len(es) : es[j].start_time <= es[i].start_time
           /\ \A j \in 1..(i - 1) : es[j].start_time # es[i].start_time]

\* The date range of the statistics: oldest_dt, then newest_dt.
JiffyDateRange(es) ==
    IF Len(es) = 0 THEN "none"
    ELSE FirstExc(<<JiffyEntryDate(Oldest(es)), JiffyEntryDate(Newest(es))>>)

\* print_examples from the print loop on: the entries are printed, then the
\* statistics; nothing is written but the standard output.
Printed(shown, print_exc, stats_exc, old_file) ==
    Outcome(IF print_exc # "none" THEN print_exc ELSE stats_exc, shown,
            old_file)

\* jiffy_export.print_examples once the owners are listed and the entries
\* to show are chosen.
JiffyPrint(listing, shown, es, old_file) ==
    IF listing # "none" THEN Outcome(listing, <<>>, old_file)
    ELSE IF shown.exc # "none" THEN Outcome(shown.exc, <<>>, old_file)
    ELSE Printed(shown.val,
                 FirstExc([i \in 1..Len(shown.val) |->
                              JiffyPrintEntry(shown.val[i])]),
                 JiffyDateRange(es), old_file)

\* A print-only branch that converts to the output file all the same.
print_examples_Converts(es, owners, old_file, num_examples, from_date, to_date) ==
    convert_to_toggl(es, owners, old_file, "", from_date, to_date,
                     AsiaBangkok)

\* jiffy_export.print_examples(data, num_examples, from_date, to_date)
print_examples(es, owners, old_file, num_examples, from_date, to_date) ==
    JiffyPrint(OwnerListing(owners),
               JiffyShown(es, num_examples, from_date, to_date), es,
               old_file)

\* The body of the try block of toggl_export.print_examples.
TogglShown(es, n, from_date, to_date) ==
    IF ~(Truthy(from_date) \/ Truthy(to_date)) THEN Ok(LastN(es, n))
    ELSE ShownOrLast(TogglFilterByDate(es, ParseBounds(from_date, to_date)),
                     es, n)

\* The body of the print loop of toggl_export.print_examples:
\* entry['Start date'], entry['Start time'], entry['Duration'].
TogglPrintEntry(entry) ==
    IF {"Start_date", "Start_time", "Duration"} \subseteq DOMAIN entry
    THEN Ok(entry)
    ELSE Raise("KeyError")

\* sum(parse_toggl_duration(e['Duration']) for e in entries)
TogglTotalDuration(es) ==
    FirstExc([i \in 1..Len(es) |->
                 IF "Duration" \in DOMAIN es[i]
                 THEN parse_toggl_duration(es[i].Duration)
                 ELSE Raise("KeyError")])

\* toggl_export.print_examples once the entries to show are chosen: the loop
\* prints display_entries[-num_examples:].
TogglPrint(shown, n, es, old_file) ==
    IF shown.exc # "none" THEN Outcome(shown.exc, <<>>, old_file)
    ELSE Printed(LastN(shown.val, n),
                 FirstExc([i \in 1..Len(LastN(shown.val, n)) |->
                              TogglPrintEntry(LastN(shown.val, n)[i])]),
                 TogglTotalDuration(es), old_file)

\* toggl_export.print_examples(entries, num_examples, from_date, to_date)
toggl_print_examples(es, old_file, num_examples, from_date, to_date) ==
    TogglPrint(TogglShown(es, num_examples, from_date, to_date),
               num_examples, es, old_file)

-----------------------------------------------------------------------------
(* convert_jiffy_toggl *)

\* convert_jiffy_toggl.parse_jiffy_timestamp(timestamp_ms, tz_name): seven
\* hours ahead for Asia/Bangkok, the UTC reading for any other name.
legacy_parse_jiffy_timestamp(timestamp_ms, tz_name) ==
    IF tz_name = AsiaBangkok
    THEN FromTimestampUtc(timestamp_ms) + 7 * MsPerHour
    ELSE FromTimestampUtc(timestamp_ms)

\* if start_dt.date() == target_date: filtered_entries.append(entry)
RECURSIVE LegacyDateLoop(_, _)
LegacyDateLoop(es, target_date) ==
    IF Len(es) = 0 THEN Ok(<<>>)
    ELSE IF "start_time_zone" \notin DOMAIN es[1] THEN Raise("KeyError")
    ELSE DateLoopStep(es[1],
                      Ok(DateOf(legacy_parse_jiffy_timestamp(
                                    es[1].start_time,
                                    es[1].start_time_zone))),
                      LegacyDateLoop(Tail(es), target_date),
                      target_date, target_date)

\* The body of the try block of convert_jiffy_toggl.print_examples.
LegacyFilter(active, target_date) ==
    IF target_date.exc # "none" THEN Raise(target_date.exc)
    ELSE LegacyDateLoop(active, target_date.val)

\* The entries that convert_jiffy_toggl.print_examples goes on to print.
LegacyShown(es, n, filter_date) ==
    IF ~Truthy(filter_date) THEN Ok(LastN(FilterActive(es), n))
    ELSE ShownOrLast(LegacyFilter(FilterActive(es), StrpYmd(filter_date)),
                     FilterActive(es), n)

\* entry['start_time_zone'] and entry['stop_time_zone'] of a printed entry.
LegacyPrintEntry(entry) ==
    IF {"start_time_zone", "stop_time_zone"} \subseteq DOMAIN entry
    THEN Ok(entry)
    ELSE Raise("KeyError")

\* oldest['start_time_zone'], then newest['start_time_zone'].
LegacyDateRange(es) ==
    IF Len(es) = 0 THEN "none"
    ELSE FirstExc(<<LegacyPrintEntry(Oldest(es)),
                    LegacyPrintEntry(Newest(es))>>)

LegacyPrint(listing, shown, es, old_file) ==
    IF listing # "none" THEN Outcome(listing, <<>>, old_file)
    ELSE IF shown.exc # "none" THEN Outcome(shown.exc, <<>>, old_file)
    ELSE Printed(shown.val,
                 FirstExc([i \in 1..Len(shown.val) |->
                              LegacyPrintEntry(shown.val[i])]),
                 LegacyDateRange(es), old_file)

\* convert_jiffy_toggl.print_examples(data, num_examples, filter_date)
legacy_print_examples(es, owners, old_file, num_examples, filter_date) ==
    LegacyPrint(OwnerListing(owners), LegacyShown(es, num_examples, filter_date),
                es, old_file)

-----------------------------------------------------------------------------
(* Inputs *)

SeqsUpTo(S, n) == UNION {[1..k -> S] : k \in 0..n}

\* The record e with the field "id" set to i.
WithId(e, i) ==
    [k \in DOMAIN e \cup {"id"} |-> IF k = "id" THEN i ELSE e[k]]

\* A sequence of records, each given its position as its id.
Numbered(es) == [i \in 1..Len(es) |-> WithId(es[i], i)]

Txt_1970_01_11 == <<"1", "9", "7", "0", "-", "0", "1", "-", "1", "1">>

Txt_1970_01_12 == <<"1", "9", "7", "0", "-", "0", "1", "-", "1", "2">>

Txt_1969_12_31 == <<"1", "9", "6", "9", "-", "1", "2", "-", "3", "1">>

\* Instants around the turn of a day: 1970-01-11 02:00 UTC, 1970-01-11 20:00
\* UTC and 1970-01-12 10:00 UTC (the checker's integers hold 24 days of
\* milliseconds).
StartTimes ==
    {10 * MsPerDay + 2 * MsPerHour,
     10 * MsPerDay + 20 * MsPerHour,
     11 * MsPerDay + 10 * MsPerHour}

EntryZones == {AsiaBangkok, GmtMinus0500}

OutputZones == {AsiaBangkok, GmtMinus0530}

DateBounds == {NoneText, Txt_1970_01_11, Txt_1970_01_12}

\* Zone descriptors of every kind: names of the zone database, a name it
\* does not have, fixed offsets, and GMT followed by something else.
ZonePool ==
    {AsiaBangkok, GMT, MarsPhobos, GmtMinus0500, GmtMinus0530, GmtPlus0545,
     GmtPlus07, Gmt0, GmtPlusAb}

Email == "me@example.com"

JiffyEntry(owner_id, start, zone, stop) ==
    [owner_id |-> owner_id, start_time |-> start, start_time_zone |-> zone,
     stop_time |-> stop, stop_time_zone |-> zone, note |-> "work"]

WithStatus(e, status) ==
    [k \in DOMAIN e \cup {"status"} |-> IF k = "status" THEN status ELSE e[k]]

\* Entries for the filters, each spanning one hour: ACTIVE at every start
\* time and zone, DELETED at every start time, and without status at every
\* start time.
FilterPool ==
    {WithStatus(JiffyEntry("py", t, z, t + MsPerHour), "ACTIVE") :
         t \in StartTimes, z \in EntryZones}
    \cup {WithStatus(JiffyEntry("py", t, AsiaBangkok, t + MsPerHour),
                     "DELETED") : t \in StartTimes}
    \cup {JiffyEntry("py", t, GmtMinus0500, t + MsPerHour) : t \in StartTimes}

\* A project under a client.
ProjectOwners ==
    <<[id |-> "cx", name |-> "ClientX", status |-> "ACTIVE"],
      [id |-> "py", name |-> "ProjectY", parent_id |-> "cx",
       status |-> "ACTIVE"]>>

JiffyArgs(from_date, to_date, output_timezone) ==
    [email |-> Email, from_date |-> from_date, to_date |-> to_date,
     output_timezone |-> output_timezone, project_to_client |-> <<>>,
     num_examples |-> 5]

\* The parsed arguments with --mode set.
WithMode(a, mode) ==
    [k \in DOMAIN a \cup {"mode"} |-> IF k = "mode" THEN mode ELSE a[k]]

\* The modes of jiffy_export that write a file.
WritingModes == {"toggl", "clockify"}

\* Start and stop instants for the durations, stop before start included.
DurationStarts == {0, 1500, 3661000}

DurationStops ==
    {0, 999, 1499, 1500, 61499, 3600000, 3661000, 3661999, 90061000}

\* Owners: three ids, a name or (for two of them) none, and a parent_id
\* that is absent, empty, an id of the set or an id of no owner.
OwnerNames == [o1 |-> "One", o2 |-> "Two", o3 |-> "Three"]

OwnerPool ==
    LET ids     == {"o1", "o2", "o3"}
        parents == {"", "o1", "o2", "o9"}
        named   == {[id |-> i, name |-> OwnerNames[i]] : i \in ids}
        bare    == named \cup {[id |-> i] : i \in {"o1", "o2"}}
    IN  bare \cup {[k \in DOMAIN o \cup {"parent_id"} |->
                       IF k = "parent_id" THEN p ELSE o[k]] :
                   o \in bare, p \in parents}

\* The owner_id of the entry: an id of the set or an id of no owner.
EntryOwnerIds == {"o1", "o9"}

Dur_1_00_00 == <<"1", ":", "0", "0", ":", "0", "0">>

Dur_1_01_01 == <<"1", ":", "0", "1", ":", "0", "1">>

Hms_09_00_00 == <<"0", "9", ":", "0", "0", ":", "0", "0">>

Hms_21_30_05 == <<"2", "1", ":", "3", "0", ":", "0", "5">>

\* Rows of a Toggl CSV export: a morning row of one hour that is not
\* billable and an evening row of 1:01:01 that is, on each of three days.
TogglPool ==
    {[Description |-> "work", Billable |-> r[3], Duration |-> r[2],
      Email |-> Email, Project |-> "ProjectY", Start_date |-> sd,
      Start_time |-> r[1]] :
        sd \in {Txt_1969_12_31, Txt_1970_01_11, Txt_1970_01_12},
        r  \in {<<Hms_09_00_00, Dur_1_00_00, "No">>,
                <<Hms_21_30_05, Dur_1_01_01, "Yes">>}}

ProjectToClient == {<<>>, [ProjectY |-> "ClientX"]}

\* The record e with its note set.
WithNote(e, note) ==
    [k \in DOMAIN e \cup {"note"} |-> IF k = "note" THEN note ELSE e[k]]

\* ACTIVE entries whose note is a text, empty, null, or absent.
NotePool ==
    {WithNote(WithStatus(JiffyEntry("py", 0, AsiaBangkok, MsPerHour),
                         "ACTIVE"), n) : n \in {"work", "", None}}
    \cup {Without(WithStatus(JiffyEntry("py", 0, AsiaBangkok, MsPerHour),
                             "ACTIVE"), {"note"})}

\* Bounds that strptime rejects: another order of the fields, and a day
\* that the month does not have.
Txt_11_01_1970 == <<"1", "1", "/", "0", "1", "/", "1", "9", "7", "0">>

Txt_1970_02_30 == <<"1", "9", "7", "0", "-", "0", "2", "-", "3", "0">>

\* The command line of a run of main: --from-date, --to-date, --email and
\* --num-examples, each given or not.
MainFromDates == {NoneText, Txt_1970_01_11, Txt_11_01_1970, Txt_1970_02_30}

MainToDates == {NoneText, Txt_1970_01_12, Txt_1970_02_30}

Emails == {None, "", Email}

NumExamples == {1, 5}

MainArgs(mode, email, from_date, to_date, num_examples) ==
    [mode |-> mode, email |-> email, from_date |-> from_date,
     to_date |-> to_date, output_timezone |-> AsiaBangkok,
     project_to_client |-> <<>>, num_examples |-> num_examples]

\* An output file left by an earlier run of something else.
StaleFile == [exists |-> TRUE, header |-> <<"stale">>, rows |-> <<>>]

\* Entries of a Jiffy export for the runs of main: an ACTIVE one, a DELETED
\* one, and an ACTIVE one that lacks its zone fields.
MainPool ==
    {WithStatus(JiffyEntry("py", 10 * MsPerDay + 2 * MsPerHour, AsiaBangkok,
                           10 * MsPerDay + 3 * MsPerHour), "ACTIVE"),
     WithStatus(JiffyEntry("py", 10 * MsPerDay + 20 * MsPerHour, AsiaBangkok,
                           10 * MsPerDay + 21 * MsPerHour), "DELETED"),
     Without(WithStatus(JiffyEntry("py", 11 * MsPerDay + 10 * MsPerHour,
                                   AsiaBangkok,
                                   11 * MsPerDay + 11 * MsPerHour),
                        "ACTIVE"),
             {"start_time_zone", "stop_time_zone"})}

\* Rows of a Toggl CSV export for the runs of main: a row of 1970-01-11 and
\* a row of 1970-01-12 that lacks the 'Start date' column.
TogglMainPool ==
    {[Description |-> "work", Billable |-> "No", Duration |-> Dur_1_00_00,
      Email |-> Email, Project |-> "ProjectY",
      Start_date |-> Txt_1970_01_11, Start_time |-> Hms_09_00_00],
     [Description |-> "work", Billable |-> "No", Duration |-> Dur_1_01_01,
      Email |-> Email, Project |-> "ProjectY",
      Start_time |-> Hms_21_30_05]}

-----------------------------------------------------------------------------
(* Initial states: the data a script has loaded and its parameters *)

\* The process has not started: nothing has run and no exit status is set.
NotStarted ==
    /\ active_entries = <<>>
    /\ ran = "none"
    /\ again = FALSE
    /\ ret = "none"
    /\ exit_status = <<>>

NothingRun ==
    /\ input_exists = TRUE
    /\ out_file = NoFile
    /\ NotStarted

\* jiffy_export with entries of every start, zone and status.
InitJiffyFilter ==
    /\ script = "jiffy_export"
    /\ time_entries \in {Numbered(es) : es \in SeqsUpTo(FilterPool, MaxEntries)}
    /\ time_owners = ProjectOwners
    /\ entries = <<>>
    /\ args \in {WithMode(JiffyArgs(f, t, z), m) :
                    f \in DateBounds, t \in DateBounds, z \in OutputZones,
                    m \in WritingModes}
    /\ NothingRun

\* jiffy_export with one active entry of every start and zone descriptor,
\* converted to every zone descriptor.
InitJiffyZones ==
    /\ script = "jiffy_export"
    /\ time_entries \in
           {Numbered(<<WithStatus(JiffyEntry("py", t, z, t + MsPerHour),
                                  "ACTIVE")>>) :
                t \in StartTimes, z \in ZonePool}
    /\ time_owners = ProjectOwners
    /\ entries = <<>>
    /\ args \in {WithMode(JiffyArgs(f, NoneText, z), m) :
                    f \in {NoneText, Txt_1970_01_11}, z \in ZonePool,
                    m \in WritingModes}
    /\ NothingRun

\* jiffy_export with active entries of every kind of note.
InitJiffyNotes ==
    /\ script = "jiffy_export"
    /\ time_entries \in {Numbered(es) : es \in SeqsUpTo(NotePool, MaxEntries)}
    /\ time_owners = ProjectOwners
    /\ entries = <<>>
    /\ args \in {WithMode(JiffyArgs(NoneText, NoneText, AsiaBangkok), m) :
                    m \in WritingModes}
    /\ NothingRun

\* jiffy_export with one active entry of every start and stop.
InitJiffyDuration ==
    /\ script = "jiffy_export"
    /\ time_entries \in
           {Numbered(<<WithStatus(JiffyEntry("py", a, AsiaBangkok, b),
                                  "ACTIVE")>>) :
                a \in DurationStarts, b \in DurationStops}
    /\ time_owners = ProjectOwners
    /\ entries = <<>>
    /\ args \in {WithMode(JiffyArgs(NoneText, NoneText, AsiaBangkok), m) :
                    m \in WritingModes}
    /\ NothingRun

\* jiffy_export with one active entry and every list of owners.
InitJiffyOwners ==
    /\ script = "jiffy_export"
    /\ time_entries \in
           {Numbered(<<WithStatus(JiffyEntry(o, 0, AsiaBangkok, MsPerHour),
                                  "ACTIVE")>>) : o \in EntryOwnerIds}
    /\ time_owners \in SeqsUpTo(OwnerPool, MaxOwners)
    /\ entries = <<>>
    /\ args \in {WithMode(JiffyArgs(NoneText, NoneText, AsiaBangkok), m) :
                    m \in WritingModes}
    /\ NothingRun

\* toggl_export with the rows of a CSV file.
InitToggl ==
    /\ script = "toggl_export"
    /\ time_entries = <<>>
    /\ time_owners = <<>>
    /\ entries \in {Numbered(es) : es \in SeqsUpTo(TogglPool, MaxEntries)}
    /\ args \in {[mode |-> "clockify", email |-> "", from_date |-> f,
                  to_date |-> t, output_timezone |-> NoneText,
                  project_to_client |-> m, num_examples |-> 5] :
                    f \in DateBounds, t \in DateBounds, m \in ProjectToClient}
    /\ NothingRun

\* A run of jiffy_export.main on an input file that exists: every mode,
\* command line and state of the output file.
InitJiffyMain ==
    /\ script = "jiffy_export"
    /\ input_exists = TRUE
    /\ time_entries \in {Numbered(es) : es \in SeqsUpTo(MainPool, MaxEntries)}
    /\ time_owners = ProjectOwners
    /\ entries = <<>>
    /\ args \in {MainArgs(m, e, f, t, n) :
                    m \in WritingModes \cup {"print-only"}, e \in Emails,
                    f \in MainFromDates, t \in MainToDates,
                    n \in NumExamples}
    /\ out_file \in {NoFile, StaleFile}
    /\ NotStarted

\* A run of toggl_export.main on an input file that exists.
InitTogglMain ==
    /\ script = "toggl_export"
    /\ input_exists = TRUE
    /\ time_entries = <<>>
    /\ time_owners = <<>>
    /\ entries \in {Numbered(es) : es \in SeqsUpTo(TogglMainPool, MaxEntries)}
    /\ args \in {MainArgs(m, None, f, t, n) :
                    m \in {"clockify", "print-only"},
                    f \in MainFromDates, t \in MainToDates,
                    n \in NumExamples}
    /\ out_file \in {NoFile, StaleFile}
    /\ NotStarted

\* A run of convert_jiffy_toggl.main on an input file that exists; --date is
\* held in from_date.
InitLegacyMain ==
    /\ script = "convert_jiffy_toggl"
    /\ input_exists = TRUE
    /\ time_entries \in {Numbered(es) : es \in SeqsUpTo(MainPool, MaxEntries)}
    /\ time_owners = ProjectOwners
    /\ entries = <<>>
    /\ args \in {MainArgs("print-only", None, f, NoneText, n) :
                    f \in MainFromDates, n \in NumExamples}
    /\ out_file \in {NoFile, StaleFile}
    /\ NotStarted

\* A run of one of the three scripts on an input file that does not exist:
\* nothing is loaded.
InitInputMissing ==
    /\ script \in {"jiffy_export", "toggl_export", "convert_jiffy_toggl"}
    /\ input_exists = FALSE
    /\ time_entries = <<>>
    /\ time_owners = <<>>
    /\ entries = <<>>
    /\ args \in {MainArgs(m, e, f, NoneText, 5) :
                    m \in WritingModes \cup {"print-only"}, e \in Emails,
                    f \in MainFromDates}
    /\ (script = "toggl_export" => args.mode # "toggl")
    /\ (script = "convert_jiffy_toggl" => args.mode = "print-only")
    /\ out_file \in {NoFile, StaleFile}
    /\ NotStarted

Init ==
    \/ InitJiffyMain
    \/ InitTogglMain
    \/ InitLegacyMain
    \/ InitInputMissing
    \/ InitJiffyFilter
    \/ InitJiffyZones
    \/ InitJiffyNotes
    \/ InitJiffyDuration
    \/ InitJiffyOwners
    \/ InitToggl

-----------------------------------------------------------------------------
(* Operations *)

\* exit(main()): the status main returns, or 1 when an exception escapes it.
ExitStatusOf(exc, returned) == IF exc = "none" THEN returned ELSE 1

\* The process ends after the function `name` ran with outcome r and main
\* went on to `return returned`; `again` tells that the run before this one
\* ran the same function.
Finish(name, r, returned) ==
    /\ active_entries' = r.active_entries
    /\ out_file' = r.out_file
    /\ ret' = r.exc
    /\ ran' = name
    /\ again' = (ran = name)
    /\ exit_status' = <<ExitStatusOf(r.exc, returned)>>
    /\ UNCHANGED <<script, input_exists, time_entries, time_owners, entries,
                   args>>

\* if not input_path.exists(): ... return 1 is passed
InputFound == input_exists

\* An email test that only rejects an option that was not given.
EmailGiven_NotNone == args.email # None

\* if not args.email: ... return 1 is passed
EmailGiven == TruthyStr(args.email)

\* jiffy_export: convert_to_toggl(data, output_file, email, from_date,
\* to_date, output_timezone)
JiffyConvertToToggl ==
    /\ script = "jiffy_export"
    /\ InputFound
    /\ args.mode = "toggl"
    /\ EmailGiven
    /\ Finish("convert_to_toggl",
              convert_to_toggl(time_entries, time_owners, out_file,
                               args.email, args.from_date, args.to_date,
                               args.output_timezone), 0)

\* jiffy_export: convert_to_clockify(data, output_file, email, from_date,
\* to_date, output_timezone)
JiffyConvertToClockify ==
    /\ script = "jiffy_export"
    /\ InputFound
    /\ args.mode = "clockify"
    /\ EmailGiven
    /\ Finish("convert_to_clockify",
              convert_to_clockify(time_entries, time_owners, out_file,
                                  args.email, args.from_date, args.to_date,
                                  args.output_timezone), 0)

\* toggl_export: convert_to_clockify(entries, output_file, from_date, to_date,
\* project_to_client)
TogglConvertToClockify ==
    /\ script = "toggl_export"
    /\ InputFound
    /\ args.mode = "clockify"
    /\ Finish("toggl_convert_to_clockify",
              toggl_convert_to_clockify(entries, out_file, args.from_date,
                                        args.to_date, args.project_to_client),
              0)

\* main of any of the three scripts: if not input_path.exists(): return 1
MainInputMissing ==
    /\ ~InputFound
    /\ Finish("main", Outcome("none", <<>>, out_file), 1)

\* jiffy_export.main in toggl or clockify mode: if not args.email: return 1
JiffyEmailMissing ==
    /\ script = "jiffy_export"
    /\ InputFound
    /\ args.mode \in WritingModes
    /\ ~EmailGiven
    /\ Finish("main", Outcome("none", <<>>, out_file), 1)

\* jiffy_export.main in print-only mode: print_examples(data,
\* args.num_examples, args.from_date, args.to_date); return 0
JiffyPrintOnly ==
    /\ script = "jiffy_export"
    /\ InputFound
    /\ args.mode = "print-only"
    /\ Finish("print_examples",
              print_examples(time_entries, time_owners, out_file,
                             args.num_examples, args.from_date,
                             args.to_date), 0)

\* toggl_export.main in print-only mode
TogglPrintOnly ==
    /\ script = "toggl_export"
    /\ InputFound
    /\ args.mode = "print-only"
    /\ Finish("toggl_print_examples",
              toggl_print_examples(entries, out_file, args.num_examples,
                                   args.from_date, args.to_date), 0)

\* convert_jiffy_toggl.main: print_examples(data, args.num_examples,
\* args.date); return 0
LegacyPrintOnly ==
    /\ script = "convert_jiffy_toggl"
    /\ InputFound
    /\ Finish("legacy_print_examples",
              legacy_print_examples(time_entries, time_owners, out_file,
                                    args.num_examples, args.from_date), 0)

Next ==
    \/ MainInputMissing
    \/ JiffyEmailMissing
    \/ JiffyPrintOnly
    \/ JiffyConvertToToggl
    \/ JiffyConvertToClockify
    \/ TogglPrintOnly
    \/ TogglConvertToClockify
    \/ LegacyPrintOnly

Spec == Init /\ [][Next]_vars

-----------------------------------------------------------------------------
(* Vocabulary of the properties *)

JiffyRan == ran \in {"convert_to_toggl", "convert_to_clockify"}

TogglRan == ran = "toggl_convert_to_clockify"

Returned == ran # "none" /\ ret = "none"

\* The entry with this id is among the retained entries.
Retained(id) == \E j \in 1..Len(active_entries) : active_entries[j].id = id

\* A date as one number, ordered as the calendar is.
DateKey(date) == date[1] * 10000 + date[2] * 100 + date[3]

HasFrom == args.from_date # NoneText /\ args.from_date # <<>>

HasTo == args.to_date # NoneText /\ args.to_date # <<>>

FromKey == DateKey(StrpYmd(args.from_date).val)

ToKey == DateKey(StrpYmd(args.to_date).val)

\* from <= date <= to, an absent bound placing no constraint.
WithinBounds(date) ==
    /\ HasFrom => FromKey <= DateKey(date)
    /\ HasTo => DateKey(date) <= ToKey

\* The start date of a Jiffy entry in the zone the entry records.
RecordedDate(e) ==
    DateOf(parse_jiffy_timestamp(e.start_time, e.start_time_zone).val)

\* The start date of a Jiffy entry in the output timezone.
DisplayedDate(e) ==
    DateOf(convert_to_output_timezone(e.start_time, e.start_time_zone,
                                      args.output_timezone).val)

StatusIsActive(e) == "status" \in DOMAIN e /\ e.status = "ACTIVE"

\* The date bounds that are given parse.
BoundsParse ==
    /\ HasFrom => StrpYmd(args.from_date).exc = "none"
    /\ HasTo => StrpYmd(args.to_date).exc = "none"

\* Every entry of the Jiffy export has its two zone fields.
EntriesHaveZones ==
    \A k \in 1..Len(time_entries) :
        {"start_time_zone", "stop_time_zone"} \subseteq DOMAIN time_entries[k]

\* No zone descriptor of the run is GMT followed by text that is no offset.
ZonesParse ==
    /\ args.output_timezone \notin {Gmt0, GmtPlusAb}
    /\ \A k \in 1..Len(time_entries) :
           time_entries[k].start_time_zone \notin {Gmt0, GmtPlusAb}

-----------------------------------------------------------------------------
(* C1 *)

\* C1: neither convert_to_toggl nor convert_to_clockify of jiffy_export
\* writes a data row for an entry whose status is not ACTIVE (DELETED, any
\* other value, or no status field): every written row comes from an entry
\* of the input whose status is ACTIVE, and no more rows are written than
\* the input has ACTIVE entries.
C1_OnlyActiveWritten ==
    JiffyRan =>
        /\ Len(out_file.rows) <= Len(active_entries)
        /\ \A i \in 1..Len(active_entries) :
               \E k \in 1..Len(time_entries) :
                   /\ time_entries[k] = active_entries[i]
                   /\ StatusIsActive(time_entries[k])
        /\ Len(out_file.rows) <=
               Cardinality({k \in 1..Len(time_entries) :
                                StatusIsActive(time_entries[k])})

\* A conversion without date bounds of an input that holds an ACTIVE entry,
\* a DELETED entry or an entry without status, and wrote exactly one row.
C1_Witness ==
    /\ JiffyRan /\ Returned
    /\ ~HasFrom /\ ~HasTo
    /\ Len(time_entries) = 2
    /\ \E k \in 1..2 : "status" \notin DOMAIN time_entries[k]
    /\ Len(out_file.rows) = 1

-----------------------------------------------------------------------------
(* C2 *)

\* C2: the date-range filter is inclusive on both ends.  After a conversion
\* that returned, an entry that passes the status filter is retained if and
\* only if from <= its start date <= to, an absent bound placing no
\* constraint; the start date is the one the filter computes (the entry's
\* recorded zone in jiffy_export, the 'Start date' column in toggl_export).
C2_InclusiveRange ==
    /\ (JiffyRan /\ Returned) =>
           \A k \in 1..Len(time_entries) :
               StatusIsActive(time_entries[k]) =>
                   (Retained(time_entries[k].id)
                        <=> WithinBounds(RecordedDate(time_entries[k])))
    /\ (TogglRan /\ Returned) =>
           \A k \in 1..Len(entries) :
               Retained(entries[k].id)
                   <=> WithinBounds(StrpYmd(entries[k].Start_date).val)

\* Both bounds given and different; one retained entry starts on the from
\* date and another on the to date.
C2_Witness ==
    /\ JiffyRan /\ Returned
    /\ HasFrom /\ HasTo /\ FromKey < ToKey
    /\ Len(out_file.rows) = 2
    /\ \E i, j \in 1..2 :
           /\ DateKey(RecordedDate(active_entries[i])) = FromKey
           /\ DateKey(RecordedDate(active_entries[j])) = ToKey

-----------------------------------------------------------------------------
(* C3 *)

\* C3: the from/to bounds are compared against the entry's start date in the
\* output calendar: after a jiffy_export conversion that returned, every
\* written row's start date, rendered in the output timezone, lies within
\* [from, to], and every active entry whose displayed start date lies within
\* [from, to] is written.
C3_BoundsInOutputCalendar ==
    (JiffyRan /\ Returned) =>
        /\ \A i \in 1..Len(out_file.rows) :
               WithinBounds(DisplayedDate(active_entries[i]))
        /\ \A k \in 1..Len(time_entries) :
               (/\ StatusIsActive(time_entries[k])
                /\ WithinBounds(DisplayedDate(time_entries[k])))
                   => Retained(time_entries[k].id)

-----------------------------------------------------------------------------
(* C4 *)

\* The seconds a Toggl CSV row lasts, as milliseconds.
TogglRowMs(e) == parse_toggl_duration(e.Duration).val * MsPerSecond

\* C4: every converter that writes the Clockify schema puts the duration in
\* the 'Duration (h)' column as decimal hours with two fraction digits: one
\* hour is "1.00" and 3661 seconds are "1.02".
C4_DurationDecimalHours ==
    /\ ran = "convert_to_clockify" =>
           \A i \in 1..Len(out_file.rows) :
               out_file.rows[i].Duration_h =
                   format_duration_hours(active_entries[i].start_time,
                                         active_entries[i].stop_time)
    /\ ran = "toggl_convert_to_clockify" =>
           \A i \in 1..Len(out_file.rows) :
               out_file.rows[i].Duration_h =
                   format_duration_hours(0, TogglRowMs(active_entries[i]))

-----------------------------------------------------------------------------
(* C5 *)

\* The duration column of row i of the file a jiffy_export converter wrote.
DurationField(i) ==
    IF ran = "convert_to_toggl" THEN out_file.rows[i].Duration
    ELSE out_file.rows[i].Duration_h

\* Two decimal digits that read as a number of 0..59.
TwoDigitsBelow60(s) == Len(s) = 2 /\ AllDigits(s) /\ DigitsVal(s) \in 0..59

\* C5: for start <= stop, format_duration returns "H:MM:SS" where, with
\* secs = floor((stop - start) / 1000), H = floor(secs / 3600) is not wrapped
\* at 24, MM and SS are in 0..59 and printed with two digits, and
\* H * 3600 + MM * 60 + SS = secs; (0, 3661000) gives "1:01:01".
C5_DurationHms ==
    JiffyRan =>
        \A i \in 1..Len(out_file.rows) :
            LET e     == active_entries[i]
                secs  == (e.stop_time - e.start_time) \div 1000
                parts == Split(DurationField(i), ":")
            IN  e.start_time <= e.stop_time =>
                    /\ Len(parts) = 3
                    /\ AllDigits(parts[1])
                    /\ parts[1] = NatStr(secs \div 3600)
                    /\ TwoDigitsBelow60(parts[2])
                    /\ TwoDigitsBelow60(parts[3])
                    /\ DigitsVal(parts[1]) * 3600 + DigitsVal(parts[2]) * 60
                           + DigitsVal(parts[3]) = secs
                    /\ (e.start_time = 0 /\ e.stop_time = 3661000) =>
                           DurationField(i) =
                               <<"1", ":", "0", "1", ":", "0", "1">>

\* A row for the entry (0, 3661000) reads "1:01:01".
C5_Witness ==
    /\ ran = "convert_to_toggl"
    /\ Len(out_file.rows) = 1
    /\ active_entries[1].start_time = 0
    /\ active_entries[1].stop_time = 3661000
    /\ out_file.rows[1].Duration = <<"1", ":", "0", "1", ":", "0", "1">>

-----------------------------------------------------------------------------
(* C6 *)

\* C6: when a retained entry has stop_time < start_time the conversion
\* surfaces an error to the caller, and it never writes a row for such an
\* entry (a row whose duration would be negative).
C6_NegativeDurationRaises ==
    JiffyRan =>
        /\ (\E i \in 1..Len(active_entries) :
                active_entries[i].stop_time < active_entries[i].start_time)
               => ret # "none"
        /\ \A i \in 1..Len(out_file.rows) :
               active_entries[i].start_time <= active_entries[i].stop_time

-----------------------------------------------------------------------------
(* C7 *)

\* The position of the first owner with this id, 0 when there is none.
OwnerIndex(owner_id) ==
    IF \E k \in 1..Len(time_owners) : time_owners[k].id = owner_id
    THEN CHOOSE k \in 1..Len(time_owners) :
             /\ time_owners[k].id = owner_id
             /\ \A j \in 1..(k - 1) : time_owners[j].id # owner_id
    ELSE 0

\* The position of the parent of the owner at position k, 0 when the owner
\* names no parent or names one that is no owner.
ParentIndex(k) ==
    IF "parent_id" \in DOMAIN time_owners[k]
    THEN OwnerIndex(time_owners[k].parent_id)
    ELSE 0

\* C7: owner resolution never raises and is one level deep.  For an owner_id
\* absent from time_owners the project is "Unknown" and the client "";
\* for an owner with no parent_id, or with a parent_id that matches no owner,
\* the client is ""; for an owner whose parent exists the client is that
\* parent's name, whatever the parent's own parent is.
C7_OwnerResolution ==
    JiffyRan =>
        /\ (BoundsParse /\ EntriesHaveZones /\ ZonesParse) =>
               /\ ret = "none"
               /\ Len(out_file.rows) = Len(active_entries)
        /\ \A i \in 1..Len(out_file.rows) :
               LET row == out_file.rows[i]
                   k   == OwnerIndex(active_entries[i].owner_id)
                   p   == ParentIndex(k)
               IN  /\ k = 0 => row.Project = "Unknown"
                   /\ (k # 0 /\ "name" \in DOMAIN time_owners[k])
                          => row.Project = time_owners[k].name
                   /\ ran = "convert_to_clockify" =>
                          /\ k = 0 => row.Client = ""
                          /\ (k # 0 /\ p = 0) => row.Client = ""
                          /\ (k # 0 /\ p # 0
                                  /\ "name" \in DOMAIN time_owners[p])
                                 => row.Client = time_owners[p].name

\* The entry's owner has a parent, the parent has a parent of another name,
\* and the client written is the parent's name.
C7_Witness ==
    /\ ran = "convert_to_clockify"
    /\ Len(out_file.rows) = 1
    /\ LET k == OwnerIndex(active_entries[1].owner_id)
       IN  /\ k # 0
           /\ ParentIndex(k) # 0
           /\ ParentIndex(ParentIndex(k)) # 0
           /\ "name" \in DOMAIN time_owners[ParentIndex(k)]
           /\ "name" \in DOMAIN time_owners[ParentIndex(ParentIndex(k))]
           /\ time_owners[ParentIndex(k)].name
                  # time_owners[ParentIndex(ParentIndex(k))].name
           /\ out_file.rows[1].Client = time_owners[ParentIndex(k)].name

-----------------------------------------------------------------------------
(* C8 *)

\* The start date and start time columns of row i.
StartFields(i) ==
    IF ran = "convert_to_toggl"
    THEN <<out_file.rows[i].Start_date, out_file.rows[i].Start_time>>
    ELSE <<out_file.rows[i].Start_Date, out_file.rows[i].Start_Time>>

\* C8: the start date and start time written in a row depend only on the
\* entry's start_time and the output timezone: two rows of one output whose
\* entries have equal start_time have identical start date and start time,
\* whatever the entries' start_time_zone.
C8_StartIgnoresRecordedZone ==
    JiffyRan =>
        \A i, j \in 1..Len(out_file.rows) :
            active_entries[i].start_time = active_entries[j].start_time
                => StartFields(i) = StartFields(j)

\* Two rows written for entries of equal start_time and different
\* start_time_zone.
C8_Witness ==
    /\ JiffyRan
    /\ Len(out_file.rows) = 2
    /\ active_entries[1].start_time = active_entries[2].start_time
    /\ active_entries[1].start_time_zone # active_entries[2].start_time_zone
    /\ StartFields(1) = StartFields(2)

-----------------------------------------------------------------------------
(* C9 *)

\* The start a row of the Toggl schema shows, read back from its text: the
\* date as one number and the second of the day.
ShownStart(row) ==
    LET d == StrpYmd(row.Start_date).val
        t == StrpHms(row.Start_time).val
    IN  <<DateKey(d), t[1] * 3600 + t[2] * 60 + t[3]>>

\* The start of row a is not after the start of row b.
NotAfter(a, b) ==
    \/ ShownStart(a)[1] < ShownStart(b)[1]
    \/ /\ ShownStart(a)[1] = ShownStart(b)[1]
       /\ ShownStart(a)[2] <= ShownStart(b)[2]

\* C9: the rows written by jiffy_export are in non-decreasing order of the
\* entries' raw start_time, entries with equal start_time keep their input
\* order, and so the start shown by the rows of the Toggl schema never
\* decreases.
C9_SortedStable ==
    (JiffyRan /\ Returned) =>
        /\ Len(out_file.rows) = Len(active_entries)
        /\ \A i, j \in 1..Len(active_entries) :
               i < j =>
                   /\ active_entries[i].start_time
                          <= active_entries[j].start_time
                   /\ active_entries[i].start_time
                          = active_entries[j].start_time
                          => active_entries[i].id < active_entries[j].id
        /\ ran = "convert_to_toggl" =>
               \A i, j \in 1..Len(out_file.rows) :
                   i < j => NotAfter(out_file.rows[i], out_file.rows[j])

\* The input holds a later entry before an earlier one and both are written,
\* the earlier one first.
C9_Witness ==
    /\ JiffyRan /\ Returned
    /\ Len(time_entries) = 2
    /\ time_entries[1].start_time > time_entries[2].start_time
    /\ Len(out_file.rows) = 2
    /\ active_entries[1].id = 2
    /\ active_entries[2].id = 1

-----------------------------------------------------------------------------
(* C10 *)

\* C10: toggl_export.convert_to_clockify sorts before writing: for any order
\* of the rows of the input CSV, the written rows are in ascending order of
\* start (Start date, Start time).
C10_TogglSorted ==
    (TogglRan /\ Returned) =>
        \A i, j \in 1..Len(out_file.rows) :
            i < j => NotAfter(active_entries[i], active_entries[j])

-----------------------------------------------------------------------------
(* C11 *)

\* C11: in every row written by every converter (convert_to_toggl and
\* convert_to_clockify of jiffy_export, convert_to_clockify of toggl_export)
\* the Billable field is the constant "No", whatever the input contains.
C11_BillableAlwaysNo ==
    (JiffyRan \/ TogglRan) =>
        \A i \in 1..Len(out_file.rows) : out_file.rows[i].Billable = "No"

-----------------------------------------------------------------------------
(* C12 *)

\* The descriptors that resolve: the names of the zone database and the
\* fixed offsets.
Resolvable ==
    {AsiaBangkok, EtcUTC, GMT, GmtMinus0500, GmtMinus0530, GmtPlus0545,
     GmtPlus07}

\* The start date and start time of the UTC reading of an instant, in the
\* format of the schema that was written.
UtcStartFields(timestamp_ms) ==
    IF ran = "convert_to_toggl"
    THEN <<StrfYmd(DateOf(timestamp_ms)), StrfHms(TimeOf(timestamp_ms))>>
    ELSE <<StrfMdy(DateOf(timestamp_ms)), StrfIMp(TimeOf(timestamp_ms))>>

\* C12: whatever the zone descriptors are, those that begin with GMT without
\* being GMT+HH:MM or GMT-HH:MM included, parse_jiffy_timestamp and
\* convert_to_output_timezone return without raising, so that a conversion
\* whose date bounds parse never aborts over a zone; and an output zone
\* that cannot be resolved gives the UTC reading of the instant.
C12_ZoneNeverRaises ==
    (JiffyRan /\ BoundsParse /\ EntriesHaveZones) =>
        /\ ret = "none"
        /\ Len(out_file.rows) = Len(active_entries)
        /\ args.output_timezone \notin Resolvable =>
               \A i \in 1..Len(out_file.rows) :
                   StartFields(i) = UtcStartFields(active_entries[i].start_time)

-----------------------------------------------------------------------------
(* C13 *)

\* The descriptors GMT+HH:MM and GMT-HH:MM of the inputs, and the offset of
\* each in minutes.
FixedOffsets == {GmtMinus0500, GmtMinus0530, GmtPlus0545}

OffsetMinutesOf(tz_name) ==
    IF tz_name = GmtMinus0500 THEN -(5 * 60)
    ELSE IF tz_name = GmtMinus0530 THEN -(5 * 60 + 30)
    ELSE 5 * 60 + 45

\* The day number of a date (0 is 1970-01-01).
DaysFromCivil(date) ==
    LET y   == date[1] - (IF date[2] <= 2 THEN 1 ELSE 0)
        era == y \div 400
        yoe == y - era * 400
        mp  == IF date[2] > 2 THEN date[2] - 3 ELSE date[2] + 9
        doy == (153 * mp + 2) \div 5 + date[3] - 1
        doe == yoe * 365 + yoe \div 4 - yoe \div 100 + doy
    IN  era * 146097 + doe - 719468

\* The clock reading that a row of the Toggl schema shows, in seconds since
\* 1970-01-01 00:00:00 of that clock.
ShownSeconds(row) ==
    DaysFromCivil(StrpYmd(row.Start_date).val) * 86400
        + StrpHms(row.Start_time).val[1] * 3600
        + StrpHms(row.Start_time).val[2] * 60
        + StrpHms(row.Start_time).val[3]

\* The reading shifted back by the offset of the output timezone.
ShiftedBack(row) ==
    ShownSeconds(row) - OffsetMinutesOf(args.output_timezone) * 60

\* The row that convert_to_toggl shows for an instant given in seconds.
ShownAgain(seconds) ==
    <<StrfYmd(DateOf(convert_to_output_timezone(seconds * MsPerSecond,
                         AsiaBangkok, args.output_timezone).val)),
      StrfHms(TimeOf(convert_to_output_timezone(seconds * MsPerSecond,
                         AsiaBangkok, args.output_timezone).val))>>

\* C13: for an output descriptor GMT+HH:MM or GMT-HH:MM the start that a row
\* shows is the UTC reading of the entry's start_time shifted by the signed
\* offset, the sign applying to the hours and to the minutes: shifting the
\* shown reading back by the offset gives the UTC reading exactly, and
\* normalizing that again gives the same shown reading.  The date filter
\* reads the entry's own descriptor the same way: with a from-date, an
\* entry recorded in a fixed offset is retained exactly when the day of its
\* shifted reading is not before the bound.
C13_FixedOffsetShift ==
    (ran = "convert_to_toggl" /\ Returned) =>
        /\ args.output_timezone \in FixedOffsets =>
               \A i \in 1..Len(out_file.rows) :
                   /\ ShiftedBack(out_file.rows[i])
                          = active_entries[i].start_time \div MsPerSecond
                   /\ ShownAgain(ShiftedBack(out_file.rows[i]))
                          = StartFields(i)
        /\ HasFrom =>
               \A k \in 1..Len(time_entries) :
                   (/\ StatusIsActive(time_entries[k])
                    /\ time_entries[k].start_time_zone \in FixedOffsets
                    /\ ~HasTo)
                   => (Retained(time_entries[k].id)
                       <=> (time_entries[k].start_time \div MsPerSecond
                            + OffsetMinutesOf(time_entries[k].start_time_zone)
                                  * 60) \div 86400
                           >= DaysFromCivil(StrpYmd(args.from_date).val))

\* An entry that starts at 02:00 UTC is shown at 20:30 of the day before
\* under GMT-05:30.
C13_Witness ==
    /\ ran = "convert_to_toggl" /\ Returned
    /\ args.output_timezone = GmtMinus0530
    /\ Len(out_file.rows) = 1
    /\ active_entries[1].start_time = 10 * MsPerDay + 2 * MsPerHour
    /\ out_file.rows[1].Start_date
           = <<"1", "9", "7", "0", "-", "0", "1", "-", "1", "0">>
    /\ out_file.rows[1].Start_time
           = <<"2", "0", ":", "3", "0", ":", "0", "0">>

-----------------------------------------------------------------------------
(* C14 *)

\* C14: a conversion is deterministic and overwrites: when the converter
\* that ran last runs again on the same data and parameters, writing to the
\* file its first run left, the file after the second run is the file after
\* the first, and so are the outcome and the exit status.
C14_RerunSameFile ==
    [][(ran # "none" /\ ran' = ran) =>
           /\ out_file' = out_file
           /\ ret' = ret
           /\ exit_status' = exit_status]_vars

\* A converter ran a second time over a file that held its two rows.
C14_Witness ==
    /\ again
    /\ JiffyRan /\ Returned
    /\ Len(out_file.rows) = 2

-----------------------------------------------------------------------------
(* C15 *)

\* C15: jiffy_export.main returns a non-zero status, without creating or
\* modifying the output file, when the input file does not exist (in any
\* mode) or when the mode is toggl or clockify and no email is given.  The
\* missing file is detected before anything is loaded and the missing email
\* before any step of a conversion: no converter and no print_examples
\* runs, nothing is filtered, and no date bound is parsed (a malformed bound
\* raises nothing).
C15_EarlyExit ==
    [][(/\ script = "jiffy_export"
        /\ \/ ~input_exists
           \/ args.mode \in {"toggl", "clockify"} /\ args.email \in {None, ""})
       => /\ exit_status' = <<1>>
          /\ out_file' = out_file
          /\ ran' = "main"
          /\ ret' = "none"
          /\ active_entries' = <<>>]_vars

\* main returned 1 in clockify mode without an email although the input
\* holds an entry and the from-date is malformed, and the file of an earlier
\* run is still there.
C15_Witness ==
    /\ script = "jiffy_export"
    /\ input_exists
    /\ Len(time_entries) > 0
    /\ args.mode = "clockify"
    /\ args.email = None
    /\ args.from_date = Txt_11_01_1970
    /\ ran = "main"
    /\ exit_status = <<1>>
    /\ out_file = StaleFile

-----------------------------------------------------------------------------
(* C16 *)

\* C16: whenever a from-date or a to-date that was given does not parse as
\* YYYY-MM-DD, a run of jiffy_export or toggl_export ends with a non-zero
\* exit status, in every mode, print-only included.
C16_MalformedBoundExitsNonZero ==
    (/\ script \in {"jiffy_export", "toggl_export"}
     /\ ran # "none"
     /\ ~BoundsParse)
    => exit_status # <<0>>

-----------------------------------------------------------------------------
(* C17 *)

\* C17: in each of the three converting functions both bounds are parsed
\* before any entry is tested against the range and before the output file
\* is opened.  When a bound that was given does not parse (the other bound
\* valid or not, the entries whatever they are, those without a date or a
\* zone included) the conversion ends with the ValueError of the bound, no
\* entry has been filtered, and the output file is as it was: not created,
\* and when it existed not truncated and no header written.
C17_BoundsFailFast ==
    [][(/\ ran' \in {"convert_to_toggl", "convert_to_clockify",
                     "toggl_convert_to_clockify"}
        /\ ~BoundsParse)
       => /\ ret' = "ValueError"
          /\ active_entries' = <<>>
          /\ out_file' = out_file]_vars

\* toggl_export's converter ended with ValueError over a to-date that does
\* not parse although the from-date is valid and a row of the input has no
\* 'Start date'; the output file of an earlier run is still there.
C17_Witness ==
    /\ ran = "toggl_convert_to_clockify"
    /\ ret = "ValueError"
    /\ args.from_date = Txt_1970_01_11
    /\ args.to_date = Txt_1970_02_30
    /\ Len(entries) = 2
    /\ "Start_date" \notin DOMAIN entries[1]
    /\ out_file = StaleFile

-----------------------------------------------------------------------------
(* C18 *)

\* The note of an entry is a string that is not empty.
HasNote(e) == "note" \in DOMAIN e /\ e.note # None /\ e.note # ""

\* C18: in the Toggl schema and in the Clockify schema that jiffy_export
\* writes, the Description of a row is the entry's note when the note is a
\* string that is not empty, and the empty string, never "-", when the
\* note is absent, null or empty.
C18_DescriptionFromNote ==
    JiffyRan =>
        \A i \in 1..Len(out_file.rows) :
            /\ HasNote(active_entries[i])
                   => out_file.rows[i].Description = active_entries[i].note
            /\ ~HasNote(active_entries[i])
                   => out_file.rows[i].Description = ""

-----------------------------------------------------------------------------
(* C19 *)

\* The run is one that only prints: the print-only mode of jiffy_export or
\* toggl_export, or any run of convert_jiffy_toggl.
PrintOnlyRun ==
    \/ script \in {"jiffy_export", "toggl_export"} /\ args.mode = "print-only"
    \/ script = "convert_jiffy_toggl"

\* The loaded data has the fields that the listing reads: the zones of the
\* Jiffy entries, the 'Start date' of the Toggl rows.
DataComplete ==
    /\ EntriesHaveZones
    /\ \A k \in 1..Len(entries) : "Start_date" \in DOMAIN entries[k]

-----------------------------------------------------------------------------
(* C20 *)

\* The column names of the schema that the converter that ran writes.
SchemaOf(converter) ==
    IF converter = "convert_to_toggl"
    THEN <<"Description", "Billable", "Duration", "Email", "Project",
           "Start date", "Start time">>
    ELSE <<"Project", "Client", "Description", "Task", "Email", "Tags",
           "Billable", "Start Date", "Start Time", "Duration (h)">>

\* The positions of the input entries that are ACTIVE and pass the range.
Eligible ==
    {k \in 1..Len(time_entries) :
        /\ StatusIsActive(time_entries[k])
        /\ WithinBounds(RecordedDate(time_entries[k]))}

\* The duration column of a row.
DurationOfRow(row) ==
    IF ran = "convert_to_toggl" THEN row.Duration ELSE row.Duration_h

\* After a conversion of jiffy_export that returned: one header, one row
\* per retained entry, and the retained entries are the eligible entries of
\* the input, each once.
OneRowPerEntry ==
    (JiffyRan /\ Returned) =>
        /\ out_file.exists
        /\ out_file.header = SchemaOf(ran)
        /\ Len(out_file.rows) = Len(active_entries)
        /\ Len(active_entries) = Cardinality(Eligible)
        /\ \A k \in Eligible : Retained(time_entries[k].id)
        /\ \A i \in 1..Len(active_entries) :
               /\ \E k \in Eligible : time_entries[k] = active_entries[i]
               /\ \A j \in 1..Len(active_entries) :
                      active_entries[i].id = active_entries[j].id => i = j
               /\ DurationOfRow(out_file.rows[i])
                      = format_duration(active_entries[i].start_time,
                                        active_entries[i].stop_time)

\* C20: on a successful conversion the output is one header row followed
\* by exactly one data row per retained entry, the retained entries being
\* the entries that are ACTIVE and pass the date range, none dropped and
\* none duplicated, entries equal in every field giving one row each; and
\* no step of a run changes the loaded time_entries or time_owners, their
\* order included.
C20_OneRowPerEntry ==
    /\ []OneRowPerEntry
    /\ [][time_entries' = time_entries /\ time_owners' = time_owners]_vars

\* Two ACTIVE entries equal in every field of the export passed a date range
\* and two rows were written.
C20_Witness ==
    /\ JiffyRan /\ Returned
    /\ HasFrom /\ HasTo
    /\ Len(time_entries) = 2
    /\ Without(time_entries[1], {"id"}) = Without(time_entries[2], {"id"})
    /\ Len(out_file.rows) = 2

====
